---- MODULE Spec2Model ----
(***************************************************************************)
(* Model of the contact importer: ContactManager (src/src/contact_manager  *)
(* .py) driving TelegramContactManager (src/src/telegram_client.py).       *)
(*                                                                         *)
(* Strings the code slices or rewrites (phone numbers, display names) are  *)
(* sequences of one-character strings; texts the code only passes around   *)
(* are TLA+ strings.  The Telethon client is the external collaborator:    *)
(* what it returns or raises is chosen by the environment.                 *)
(***************************************************************************)
EXTENDS Integers, Sequences, FiniteSets, TLC

(* ---------------------------- bounds ----------------------------------- *)

\* longest input file whose lines are enumerated freely
MaxLines == 2
\* length of the one long input file (longer than the bulk default of 50)
LongLen == 51
\* number of operations (import_from_file, add_single_contact) made in a
\* row on one manager
MaxOps == 2
\* largest digit varied in the 12-digit inputs that begin with 82102
MaxTail == 5
\* wait carried by a FloodWaitError
FloodSeconds == 5
\* a caller-chosen batch size above the bulk default
BigBatch == 60

(* ------------------------ program constants ---------------------------- *)

\* add_contacts_bulk(..., batch_size: int = 50, ...)
BulkBatchSize == 50
\* await asyncio.sleep(1) between the chunks of one add_contacts_bulk call
BulkPause == 1
\* await asyncio.sleep(2) between the batches of import_from_file
BatchPause == 2

None == "None"

(* ----------------------------- strings --------------------------------- *)

Min(a, b) == IF a < b THEN a ELSE b
Max(a, b) == IF a > b THEN a ELSE b

\* s[-n:]
LastChars(s, n) == SubSeq(s, Max(1, Len(s) - n + 1), Len(s))

\* s.replace(ch, '')
RemoveChar(s, ch) == SelectSeq(s, LAMBDA c : c # ch)

\* s[a:b] on a list, 0-based, clipped like a Python slice
Slice(s, a, b) == SubSeq(s, a + 1, Min(b, Len(s)))

\* s[-n:] on a list for n >= 1; s[-0:] is the whole list
LastItems(s, n) == IF n = 0 THEN s ELSE SubSeq(s, Max(1, Len(s) - n + 1), Len(s))

DefaultPrefix == <<"C", "o", "n", "t", "a", "c", "t">>
OtherPrefix == <<"V", "I", "P">>

(* --------------------------- phone records ----------------------------- *)

\* PhoneNumber(raw, formatted, country_code, is_valid, error_message)
PhoneNumber(raw, formatted, cc, valid, err) ==
    [raw |-> raw, formatted |-> formatted, country_code |-> cc,
     is_valid |-> valid, error_message |-> err]

(* ------------------------- the numbering plan -------------------------- *)

\* The phonenumbers library, as far as the inputs below exercise it: the
\* country calling codes 1 (NANP), 82 (KR) and 852 (HK), every other code
\* unassigned, and of each plan the ranges the inputs fall in.

Digits == {"0", "1", "2", "3", "4", "5", "6", "7", "8", "9"}

\* s.startswith(prefix)
StartsWith(s, prefix) ==
    Len(s) >= Len(prefix) /\ SubSeq(s, 1, Len(prefix)) = prefix

\* s[n:]
From(s, n) == SubSeq(s, n + 1, Len(s))

\* s.strip(), the only whitespace of the inputs being the space
RECURSIVE Strip(_)
Strip(s) ==
    IF s = <<>> THEN s
    ELSE IF Head(s) = " " THEN Strip(Tail(s))
    ELSE IF s[Len(s)] = " " THEN Strip(SubSeq(s, 1, Len(s) - 1))
    ELSE s

OnlyDigits(s) == SelectSeq(s, LAMBDA c : c \in Digits)

CountryCallingCodes == {<<"1">>, <<"8", "2">>, <<"8", "5", "2">>}

\* the calling code of a region; parsing without '+' needs a region
RegionCode(region) ==
    CASE region = "HK" -> <<"8", "5", "2">>
      [] region = "US" -> <<"1">>
      [] region = "KR" -> <<"8", "2">>

\* str(NumberParseException): "(error_type) message"
NotANumberText == "(1) The string supplied did not seem to be a phone number."
AfterPlusText == "(0) Could not interpret numbers after plus-sign."
NoRegionText == "(0) Missing or invalid default region."
TooShortText == "(3) The string supplied is too short to be a phone number."
TooLongText == "(4) The string supplied is too long to be a phone number."

ParseError(text) ==
    [raises |-> TRUE, text |-> text, country_code |-> <<>>, national_number |-> <<>>]
Parsed(cc, national) ==
    [raises |-> FALSE, text |-> "", country_code |-> cc, national_number |-> national]

\* phonenumbers.parse(number, region): punctuation is ignored; a number
\* with '+' carries its calling code, one without is read in the plan of
\* the region; a number of fewer than two digits is no phone number
Parse(number, region) ==
    LET digits == OnlyDigits(number)
        codes == {cc \in CountryCallingCodes : StartsWith(digits, cc)}
        Checked(cc, national) ==
            \* a national significant number has 2 to 17 digits
            IF Len(national) < 2 THEN ParseError(TooShortText)
            ELSE IF Len(national) > 17 THEN ParseError(TooLongText)
            ELSE Parsed(cc, national)
    IN  IF Len(digits) < 2 THEN ParseError(NotANumberText)
        ELSE IF StartsWith(number, <<"+">>)
        THEN IF codes = {} THEN ParseError(AfterPlusText)
             ELSE LET cc == CHOOSE c \in codes : \A d \in codes : Len(c) <= Len(d)
                  IN  Checked(cc, From(digits, Len(cc)))
        ELSE IF region = None THEN ParseError(NoRegionText)
        ELSE Checked(RegionCode(region), digits)

\* phonenumbers.is_valid_number(parsed): NANP numbers are NXX NXX XXXX, KR
\* mobile numbers 10 [0-46-9] and seven digits, HK fixed-line numbers
\* 2 [13-9] and six digits
is_valid_number(parsed) ==
    LET n == parsed.national_number
    IN  CASE parsed.country_code = <<"1">> ->
               Len(n) = 10 /\ n[1] \notin {"0", "1"} /\ n[4] \notin {"0", "1"}
          [] parsed.country_code = <<"8", "2">> ->
               Len(n) = 10 /\ n[1] = "1" /\ n[2] = "0" /\ n[3] \notin {"5"}
          [] parsed.country_code = <<"8", "5", "2">> ->
               Len(n) = 8 /\ n[1] = "2" /\ n[2] \notin {"0", "2"}
          [] OTHER -> FALSE

\* phonenumbers.format_number(parsed, PhoneNumberFormat.E164)
FormatE164(parsed) == <<"+">> \o parsed.country_code \o parsed.national_number

(* ------------------------------ PhoneParser ---------------------------- *)

\* PhoneParser(default_country="HK")
default_country == "HK"

\* the default configuration: phone_formatting.remove_chars,
\* phone_formatting.auto_add_country_code, and no country_codes table
remove_chars == {"-", "(", ")", " ", "."}
auto_add_country_code == TRUE

\* config.get_country_code(country): the entry of the country_codes table,
\* '' when there is none
get_country_code(country) == <<>>

\* the first two steps of _clean_phone_number: drop the remove_chars, then
\* put a '+' before what looks like an international number without one
detect_international(phone) ==
    LET stripped == SelectSeq(phone, LAMBDA c : c \notin remove_chars)
    IN  IF ~StartsWith(stripped, <<"+">>) /\ Len(stripped) >= 10
           /\ ((stripped[1] = "1" /\ Len(stripped) = 11)
               \/ (stripped[1] \in (Digits \ {"0", "1"}) /\ Len(stripped) >= 11))
        THEN <<"+">> \o stripped
        ELSE stripped

\* _clean_phone_number when config.get_country_code(default_country)
\* returns country_code: the 82102 branch, and the auto_add_country_code
\* branch as its elif
clean_with_country_code(phone, country_code) ==
    LET plussed == detect_international(phone)
    IN  IF StartsWith(plussed, <<"8", "2", "1", "0", "2">>)
        THEN IF Len(plussed) = 12
             THEN <<"+", "8", "5", "2", " ">> \o From(plussed, 5)
             ELSE plussed
        ELSE IF auto_add_country_code /\ ~StartsWith(plussed, <<"+">>)
        THEN country_code \o plussed
        ELSE plussed

\* PhoneParser._clean_phone_number
_clean_phone_number(phone) ==
    clean_with_country_code(phone, get_country_code(default_country))

\* a country_codes entry a configuration file can give the default country
HKDialingPrefix == <<"+", "8", "5", "2">>

\* PhoneParser.parse_number
parse_number(phone_str) ==
    LET original == Strip(phone_str)
        first == _clean_phone_number(original)
        test_parsed == Parse(<<"+">> \o first, None)
        cleaned ==
            IF ~StartsWith(first, <<"+">>) /\ Len(first) >= 10
               /\ ~test_parsed.raises /\ is_valid_number(test_parsed)
            THEN <<"+">> \o first
            ELSE first
        parsed == Parse(cleaned, default_country)
    IN  IF parsed.raises
        THEN PhoneNumber(original, cleaned, <<>>, FALSE, parsed.text)
        ELSE IF is_valid_number(parsed)
        THEN PhoneNumber(original, FormatE164(parsed),
                         <<"+">> \o parsed.country_code, TRUE, None)
        ELSE PhoneNumber(original, cleaned, <<>>, FALSE, "Invalid phone number format")

(* ------------------------- PhoneParser.parse_file ---------------------- *)

\* the letters of the input lines (char.isalpha())
Letters == {"N", "P", "a", "b", "e", "h", "m", "n", "o", "x", "y"}

\* the character class of phone_pattern: [\d\-\(\)\.\s\+], the only
\* whitespace of the inputs being the space
PhoneChars == Digits \cup {"-", "(", ")", ".", " ", "+"}

\* the least length phone_pattern matches: {7,}
PatternMinLen == 7

\* validation_config.get('min_length', 7)
min_length == 7

\* where the run of PhoneChars that begins at line[i] ends
RECURSIVE RunEnd(_, _)
RunEnd(line, i) ==
    IF i < Len(line) /\ line[i + 1] \in PhoneChars THEN RunEnd(line, i + 1) ELSE i

\* re.findall(phone_pattern, line) from position i on: the matches left to
\* right, each as long as it can be, none overlapping another
RECURSIVE FindAll(_, _)
FindAll(line, i) ==
    IF i > Len(line) THEN <<>>
    ELSE IF line[i] \notin PhoneChars THEN FindAll(line, i + 1)
    ELSE LET j == RunEnd(line, i)
         IN  (IF j - i + 1 >= PatternMinLen THEN <<SubSeq(line, i, j)>> ELSE <<>>)
             \o FindAll(line, j + 1)

\* max(matches, key=len): the first of the longest matches
MaxByLen(matches) ==
    matches[CHOOSE k \in 1..Len(matches) :
                /\ \A m \in 1..Len(matches) : Len(matches[m]) <= Len(matches[k])
                /\ \A m \in 1..(k - 1) : Len(matches[m]) < Len(matches[k])]

\* PhoneParser._extract_phone_from_line: the longest match, stripped, or
\* None when nothing matches
_extract_phone_from_line(line) ==
    LET matches == FindAll(line, 1)
    IN  IF matches # <<>>
        THEN [is_none |-> FALSE, text |-> Strip(MaxByLen(matches))]
        ELSE [is_none |-> TRUE, text |-> <<>>]

\* PhoneParser._looks_like_phone
_looks_like_phone(text) == Len(OnlyDigits(text)) >= min_length

\* the body of the loop of parse_file: the records one line adds to
\* phone_numbers (none or one)
parse_line(raw_line) ==
    LET line == Strip(raw_line)
        phone == _extract_phone_from_line(line)
    IN  IF line = <<>> \/ StartsWith(line, <<"#">>) \/ StartsWith(line, <<"/", "/">>)
        THEN <<>>
        ELSE IF (\E k \in 1..Len(line) : line[k] \in Letters) /\ ~_looks_like_phone(line)
        THEN <<>>
        ELSE IF ~phone.is_none /\ phone.text # <<>>
        THEN <<parse_number(phone.text)>>
        ELSE <<>>

\* PhoneParser.parse_file on the lines of an existing file
RECURSIVE parse_file(_)
parse_file(lines) ==
    IF lines = <<>> THEN <<>>
    ELSE parse_line(Head(lines)) \o parse_file(Tail(lines))

\* results of parse_number on three sample inputs: two numbers the
\* numbering plan accepts (returned by the is_valid branch, E.164 formatted)
\* and one it rejects (returned by the else branch, cleaned text kept)
HKNumber == parse_number(<<"+", "8", "5", "2", "2", "1", "2", "3", "4", "5", "6", "7">>)
USNumber == parse_number(<<"+", "1", " ", "(", "2", "0", "2", ")", " ", "5", "5", "5", "-", "0", "1", "9", "1">>)
BadNumber == parse_number(<<"1", "2", "3", "4", "5", "6", "7">>)

ValidSamples == {HKNumber, USNumber}
Samples == ValidSamples \cup {BadNumber}

\* the E.164 strings of the sample numbers
SamplePhones == {p.formatted : p \in ValidSamples}

(* ------------------------------ messages ------------------------------- *)

\* a formatted text: the f-string's template, its number and its text argument
Msg(fmt, n, arg) == [fmt |-> fmt, n |-> n, arg |-> arg]
PlainMsg(text) == Msg("{arg}", 0, text)

NotAuthorizedText == "Not connected or not authorized"
DisconnectedText == "Cannot send requests while disconnected"
NoPhoneAttrText == "'ImportedContact' object has no attribute 'phone'"
BotText == "Bot session detected - cannot import contacts. Please use a USER account."

\* texts of the exceptions the remote call raises for a transport failure
TransportErrors == {"Connection reset by peer", "Bots can't use this method"}

\* "bot" in error_msg.lower()
MentionsBot(text) == text = "Bots can't use this method"

(* --------------------------- the remote side --------------------------- *)

\* phone numbers as the service stores them: digits without the '+'
RemotePhones == {RemoveChar(p, "+") : p \in SamplePhones}

\* the sample numbers that may have an account on the service
Registrable == {RemoveChar(HKNumber.formatted, "+")}

\* what one ImportContactsRequest can do: answer (with some contacts to
\* retry), raise FloodWaitError(seconds), or raise another exception
Outcomes ==
    {[kind |-> "ok", seconds |-> 0, text |-> "", retry |-> r] : r \in 0..1}
    \cup {[kind |-> "flood", seconds |-> FloodSeconds, text |-> "", retry |-> 0]}
    \cup {[kind |-> "error", seconds |-> 0, text |-> t, retry |-> 0] : t \in TransportErrors}

\* what the authorization check at the head of add_contacts_bulk can do:
\* no client or an unauthorized one makes the method raise; a dropped client
\* either answers from its cached authorization or raises while asking
AuthChecks(sess) ==
    CASE sess = "ok" -> {[raises |-> FALSE, text |-> ""]}
      [] sess = "disconnected" -> {[raises |-> FALSE, text |-> ""],
                                   [raises |-> TRUE, text |-> DisconnectedText]}
      [] OTHER -> {[raises |-> TRUE, text |-> NotAuthorizedText]}

\* the answers of client.get_contacts(): a contact book whose users may
\* lack a phone, or an exception
LookupResults(sess) ==
    {[ok |-> FALSE, book |-> {}]}
    \cup (IF sess = "ok"
          THEN {[ok |-> TRUE, book |-> b] : b \in SUBSET (RemotePhones \cup {<<>>})}
          ELSE {})

\* the users of the answer to ImportContactsRequest(contacts): the contacts
\* whose number is registered with the service
ImportedOf(contacts, reg) ==
    LET sel == SelectSeq(contacts, LAMBDA c : c.phone \in reg)
    IN  [k \in 1..Len(sel) |-> [client_id |-> sel[k].client_id, phone |-> sel[k].phone]]

\* c.phone on an element of result.imported; the element type belongs to
\* the client library: it may carry the number with or without the '+'
\* ("no_phone": reading the attribute raises AttributeError)
PhoneAttr(c, shape) == IF shape = "plus" THEN <<"+">> \o c.phone ELSE c.phone

(* ------------------------ TelegramContactManager ----------------------- *)

\* a faulty filter that keeps every record
KeepAll(phone_numbers) == phone_numbers

\* [p for p in phone_numbers if p.is_valid]
FilterValid(phone_numbers) == SelectSeq(phone_numbers, LAMBDA p : p.is_valid)

\* the InputPhoneContact list built by _add_contacts_batch
BuildContacts(phone_numbers, name_prefix) ==
    [k \in 1..Len(phone_numbers) |->
        [client_id |-> k - 1,
         phone |-> RemoveChar(phone_numbers[k].formatted, "+"),
         first_name |-> name_prefix \o <<" ">> \o LastChars(phone_numbers[k].formatted, 4),
         last_name |-> <<>>]]

BatchResult(successful, failed, errs, imported) ==
    [successful |-> successful, failed |-> failed, errors |-> errs,
     imported_contacts |-> imported]

\* a faulty not-connected result that carries no error text
NotConnectedSilent(phone_numbers) ==
    BatchResult(0, Len(phone_numbers), <<>>, <<>>)

\* _add_contacts_batch when the client is missing or not connected
NotConnectedResult(phone_numbers) ==
    BatchResult(0, Len(phone_numbers), <<PlainMsg("Client not connected")>>, <<>>)

\* _add_contacts_batch once the remote call has answered or raised
AddContactsBatch(contacts, o, reg) ==
    CASE o.kind = "ok" ->
           LET imported == ImportedOf(contacts, reg)
           IN  BatchResult(Len(imported), Len(contacts) - Len(imported),
                           IF o.retry > 0
                           THEN <<Msg("{n} contacts need retry", o.retry, "")>>
                           ELSE <<>>,
                           imported)
      [] o.kind = "flood" ->
           BatchResult(0, Len(contacts),
                       <<Msg("Rate limited: wait {n} seconds", o.seconds, "")>>, <<>>)
      [] OTHER ->
           BatchResult(0, Len(contacts),
                       <<PlainMsg(IF MentionsBot(o.text) THEN BotText ELSE o.text)>>, <<>>)

\* the results dict of add_contacts_bulk before its loop
EmptyResults == BatchResult(0, 0, <<>>, <<>>)

\* "Merge results" in add_contacts_bulk
MergeResults(results, batch_result) ==
    BatchResult(results.successful + batch_result.successful,
                results.failed + batch_result.failed,
                results.errors \o batch_result.errors,
                results.imported_contacts \o batch_result.imported_contacts)

(* ---------------------------- ContactManager --------------------------- *)

ContactOperation(phone, success, error_message) ==
    [phone |-> phone, success |-> success, error_message |-> error_message]

\* part / whole * 100 in Python: the exact quotient as a fraction, or the
\* ZeroDivisionError that dividing by 0 raises
Rate(part, whole) ==
    IF whole = 0
    THEN [raises |-> "ZeroDivisionError", num |-> 0, den |-> 0]
    ELSE [raises |-> None, num |-> part * 100, den |-> whole]

\* the literal 0 of the else branches
ZeroRate == [raises |-> None, num |-> 0, den |-> 1]

\* a faulty get_stats that divides without looking at total
get_stats_unguarded(phone_numbers) ==
    [total |-> Len(phone_numbers),
     valid |-> Len(FilterValid(phone_numbers)),
     invalid |-> Len(phone_numbers) - Len(FilterValid(phone_numbers)),
     success_rate |-> Rate(Len(FilterValid(phone_numbers)), Len(phone_numbers))]

\* PhoneParser.get_stats: the counts and the share of valid numbers
get_stats(phone_numbers) ==
    LET total == Len(phone_numbers)
        valid == Len(FilterValid(phone_numbers))
    IN  [total |-> total,
         valid |-> valid,
         invalid |-> total - valid,
         success_rate |-> IF total > 0 THEN Rate(valid, total) ELSE ZeroRate]

EmptyStats == [total |-> 0, valid |-> 0, invalid |-> 0, success_rate |-> ZeroRate]

\* ContactManager.get_operation_summary
get_operation_summary(log) ==
    IF log = <<>>
    THEN [total_operations |-> 0, successful |-> 0, failed |-> 0,
          success_rate |-> ZeroRate]
    ELSE LET total == Len(log)
             successful == Len(SelectSeq(log, LAMBDA op : op.success))
         IN  [total_operations |-> total,
              successful |-> successful,
              failed |-> total - successful,
              success_rate |-> IF total > 0 THEN Rate(successful, total) ELSE ZeroRate,
              latest_operations |-> LastItems(log, 10)]

\* the dicts import_from_file returns; kind tells the return statement
Report(kind, success, error, stats, attempted, successful, failed, errs, operations) ==
    [kind |-> kind, success |-> success, error |-> error, stats |-> stats,
     attempted |-> attempted, successful |-> successful, failed |-> failed,
     errors |-> errs, operations |-> operations]

NoReport == Report("none", FALSE, None, EmptyStats, 0, 0, 0, <<>>, <<>>)

\* [p for p in valid_numbers if p.formatted not in existing]
FilterNew(valid_numbers, existing) ==
    SelectSeq(valid_numbers, LAMBDA p : p.formatted \notin existing)

\* a faulty lookup that returns the phones without the '+'
ExistingWithoutPlus(res) ==
    IF res.ok THEN {b \in res.book : b # <<>>} ELSE {}

\* a faulty lookup that reports every sample number as existing when the
\* call raised
ExistingAllOnFailure(res) ==
    IF res.ok THEN {<<"+">> \o ph : ph \in {b \in res.book : b # <<>>}}
    ELSE SamplePhones

\* get_existing_contacts: '+' and the phone of every contact that has one,
\* or the empty list when the lookup raised
get_existing_contacts(res) ==
    IF res.ok THEN {<<"+">> \o ph : ph \in {b \in res.book : b # <<>>}} ELSE {}

(* ------------------------------- inputs -------------------------------- *)

\* what parse_phone_file returns for the input files: every list of up to
\* MaxLines sample records, and one long list of valid records
ShortLists == UNION {[1..n -> Samples] : n \in 0..MaxLines}
LongList == [k \in 1..LongLen |-> IF k % 2 = 1 THEN HKNumber ELSE USNumber]

MissingFile == [exists |-> FALSE, numbers |-> <<>>]
ShortFiles == {[exists |-> TRUE, numbers |-> l] : l \in ShortLists} \cup {MissingFile}
LongFile == [exists |-> TRUE, numbers |-> LongList]

SmallBatchSizes == {-1, 0, 1, 2}
LargeBatchSizes == {BulkBatchSize, BigBatch}

\* the (file, batch_size) pairs the first run of a manager is started with:
\* short files in small batches, the long file in large ones
RunInputs ==
    (ShortFiles \X SmallBatchSizes) \cup ({LongFile} \X LargeBatchSizes)

\* the (file, batch_size) pairs of a run in a sequence of operations
\* (an empty file, a one-line file, a file with an invalid and a valid
\* line, and the missing file)
OpLists == {<<>>, <<HKNumber>>, <<BadNumber, HKNumber>>}
OpInputs ==
    ({[exists |-> TRUE, numbers |-> l] : l \in OpLists} \cup {MissingFile})
    \X {-1, 0, 1}

Prefixes == {DefaultPrefix, OtherPrefix}

\* lines of a text file: a number alone, a number after a label, a comment
\* of each kind, a blank line, a header, a text too short to match, a long
\* run of spaces before a number, two runs of one length, and a row of
\* dashes before a number
TextLines ==
    {<<"+", "8", "5", "2", "2", "1", "2", "3", "4", "5", "6", "7">>,
     <<"N", "a", "m", "e", " ", "+", "8", "5", "2", " ", "2", "1", "2", "3", " ", "4", "5", "6", "7">>,
     <<"#", " ", "2", "1", "2", "3", "4", "5", "6", "7">>,
     <<"/", "/", "2", "1", "2", "3", "4", "5", "6", "7">>,
     <<" ", " ">>,
     <<"P", "h", "o", "n", "e">>,
     <<"1", "2", "3", "4", "5", "6">>,
     <<"x", " ", " ", " ", " ", " ", " ", " ", " ", "y", "1", "2", "3", "4", "5", "6", "7">>,
     <<"1", "2", "3", "4", "5", "6", "7", "a", "7", "6", "5", "4", "3", "2", "1">>,
     <<"1", "2", "3", "a", "1", "2", "0", "2", "5", "5", "5", "0", "1", "9", "1">>,
     <<"a", "-", "-", "-", "-", "-", "-", "-", "-", "b", "2", "1", "2", "3", "4", "5", "6", "7">>}

\* the text files: every file of up to MaxLines of these lines
TextFiles ==
    {[exists |-> TRUE, lines |-> l, numbers |-> parse_file(l)] :
        l \in UNION {[1..n -> TextLines] : n \in 0..MaxLines}}

\* the digit characters in order
DigitOf == <<"0", "1", "2", "3", "4", "5", "6", "7", "8", "9">>

\* 12-digit strings that begin with 82102, among them 821020131384
RegionPrefixInputs ==
    {<<"8", "2", "1", "0", "2", DigitOf[a + 1], "1", "3", "1", "3", "8", DigitOf[b + 1]>> :
        a \in 0..MaxTail, b \in 0..MaxTail}

\* the texts add_single_contact is called with: numbers in international,
\* national and punctuated writing, numbers of a wrong length, of an
\* unassigned calling code, too short and too long ones, no number at all
RawInputs ==
    RegionPrefixInputs \cup
    {<<"+", "8", "5", "2", "2", "1", "2", "3", "4", "5", "6", "7">>,
     <<"+", "8", "5", "2", " ", "2", "1", "2", "3", " ", "4", "5", "6", "7">>,
     <<"2", "1", "2", "3", "4", "5", "6", "7">>,
     <<"+", "1", " ", "(", "2", "0", "2", ")", " ", "5", "5", "5", "-", "0", "1", "9", "1">>,
     <<"1", "2", "0", "2", "5", "5", "5", "0", "1", "9", "1">>,
     <<" ", "1", "-", "2", "0", "2", "-", "5", "5", "5", "-", "0", "1", "9", "1", " ">>,
     <<"1", "2", "3", "4", "5", "6", "7">>,
     <<"1", "2", "3", "4", "5", "6", "7", "8", "9", "0">>,
     <<>>,
     <<"+">>,
     <<"1", "2">>,
     <<"+", "9", "9", "9", "1", "2", "3", "4", "5", "6", "7">>,
     <<"+", "8", "5", "2", "1", "2", "3", "4", "5", "6", "7", "8", "9">>,
     <<"+", "8", "5", "2", "1">>,
     <<"+", "8", "5", "2", "1", "1", "1", "1", "1", "1", "1", "1", "1", "1", "1", "1", "1", "1", "1", "1", "1", "1">>,
     <<"+", "8", "2", "1", "0", "2", "0", "1", "3", "1", "3", "8", "4">>,
     <<"8", "2", "1", "0", "2", "1", "2", "3", "4", "5">>,
     <<"8", "2", "1", "0", "2", " ", "1", "2", "3">>}

(* -------------------------------- state -------------------------------- *)

VARIABLES
    session,          \* the client of the TelegramContactManager: "none",
                      \* "unauthorized", "ok" or "disconnected"
    registered,       \* the numbers that have an account on the service
    importedShape,    \* what the elements of result.imported expose as .phone
    operations_log,   \* ContactManager.operations_log
    pc,               \* where the running call is suspended
    run,              \* the locals of import_from_file
    bulk,             \* the locals of add_contacts_bulk
    single,           \* the locals of add_single_contact
    report,           \* what the last call returned
    raised,           \* the exception the last call let escape
    calls,            \* the ImportContactsRequests of the current call, in order
    slept,            \* the time the current call has spent in asyncio.sleep
    ops,              \* calls of import_from_file and add_single_contact so far
    hist              \* what the current call started from

vars == <<session, registered, importedShape, operations_log, pc, run, bulk,
          single, report, raised, calls, slept, ops, hist>>

NoRun ==
    [valid_numbers |-> <<>>, stats |-> EmptyStats, skip_existing |-> FALSE,
     batch_size |-> 1, name_prefix |-> DefaultPrefix, i |-> 0,
     total_successful |-> 0, total_failed |-> 0, all_errors |-> <<>>]

NoBulk ==
    [phone_numbers |-> <<>>, valid_numbers |-> <<>>, batch_size |-> BulkBatchSize,
     name_prefix |-> DefaultPrefix, i |-> 0, results |-> EmptyResults]

NoSingle == [phone |-> BadNumber, first_name |-> <<>>, last_name |-> <<>>]

\* op: the call ("import", "single"); batch_size, skip_existing: its
\* arguments; okAtStart, okThroughout: whether the session was connected and
\* authorized when it started and ever since; logStart: the length of
\* operations_log when it started; parsed: the parsed numbers; lookup: how
\* the contact lookup went; book: the phones the lookup returned;
\* candidates: the numbers left to import; iterations: batches begun;
\* ledger: operations_log as it was when the call started; name_prefix:
\* the name_prefix argument of import_from_file; cancelled: whether the
\* task running the call has been cancelled; lines: the lines of the
\* file, where the call was given them; connect, phone_number: how
\* connect() went in create_contact_manager and whether a phone number
\* was passed to it
NoHist ==
    [op |-> "none", batch_size |-> 1, skip_existing |-> FALSE,
     okAtStart |-> FALSE, okThroughout |-> FALSE, logStart |-> 0,
     parsed |-> <<>>, lookup |-> "skipped", book |-> {},
     candidates |-> <<>>, iterations |-> 0, ledger |-> <<>>,
     name_prefix |-> DefaultPrefix, cancelled |-> FALSE, lines |-> <<>>,
     connect |-> "none", phone_number |-> FALSE]

Init ==
    /\ session \in {"none", "unauthorized", "ok"}
    /\ registered \in SUBSET Registrable
    /\ importedShape \in {"no_phone", "plain", "plus"}
    \* what the service would answer is left open only where it can answer
    /\ session # "ok" => registered = {}
    /\ registered = {} => importedShape = "no_phone"
    /\ operations_log = <<>>
    /\ pc = "idle"
    /\ run = NoRun
    /\ bulk = NoBulk
    /\ single = NoSingle
    /\ report = NoReport
    /\ raised = None
    /\ calls = <<>>
    /\ slept = 0
    /\ ops = 0
    /\ hist = NoHist

StartHist(op, parsed, size, skip) ==
    [op |-> op, batch_size |-> size, skip_existing |-> skip,
     okAtStart |-> session = "ok", okThroughout |-> session = "ok",
     logStart |-> Len(operations_log), parsed |-> parsed, lookup |-> "skipped",
     book |-> {}, candidates |-> FilterValid(parsed), iterations |-> 0,
     ledger |-> operations_log, name_prefix |-> DefaultPrefix,
     cancelled |-> FALSE, lines |-> <<>>, connect |-> "none",
     phone_number |-> FALSE]

(* --------------------- ContactManager.import_from_file ----------------- *)

\* the report returned when parse_phone_file raised
ParseErrorReport(text) ==
    Report("parse_error", FALSE, text, EmptyStats, 0, 0, 0, <<>>, <<>>)

\* the report returned when no parsed number is valid
NoValidReport(stats) ==
    Report("no_valid", FALSE, "No valid phone numbers found", stats, 0, 0, 0, <<>>, <<>>)

\* a faulty report of a run that found every number in the contact book
AllExistReportFailure(stats) ==
    Report("all_exist", FALSE, None, stats, 0, 0, 0, <<>>, <<>>)

\* the report returned when every valid number is already a contact
AllExistReport(stats) ==
    Report("all_exist", TRUE, None, stats, 0, 0, 0, <<>>, <<>>)

\* the call up to its first await: parse, keep the valid numbers, return
\* early when the file cannot be parsed or holds no valid number
ImportFromFile(file, skip, size, prefix) ==
    /\ pc = "idle"
    /\ ops' = ops + 1
    /\ raised' = None
    /\ calls' = <<>>
    /\ slept' = 0
    /\ hist' = [StartHist("import", file.numbers, size, skip)
                   EXCEPT !.name_prefix = prefix,
                          !.lines = IF "lines" \in DOMAIN file THEN file.lines ELSE <<>>]
    /\ LET valid_numbers == FilterValid(file.numbers)
           stats == get_stats(file.numbers)
       IN  IF ~file.exists
           THEN /\ report' = ParseErrorReport("File not found")
                /\ pc' = "idle"
                /\ run' = NoRun
           ELSE IF valid_numbers = <<>>
           THEN /\ report' = NoValidReport(stats)
                /\ pc' = "idle"
                /\ run' = NoRun
           ELSE /\ report' = NoReport
                /\ pc' = IF skip THEN "lookup" ELSE "loop"
                /\ run' = [NoRun EXCEPT !.valid_numbers = valid_numbers,
                                        !.stats = stats,
                                        !.skip_existing = skip,
                                        !.batch_size = size,
                                        !.name_prefix = prefix]
    /\ UNCHANGED <<session, registered, importedShape, operations_log, bulk,
                   single>>

\* the existing-contact check: one get_contacts call, then the filter and
\* the early return when nothing is left
Lookup ==
    /\ pc = "lookup"
    /\ \E res \in LookupResults(session) :
         LET existing == get_existing_contacts(res)
             valid_numbers == FilterNew(run.valid_numbers, existing)
         IN  /\ hist' = [hist EXCEPT !.lookup = IF res.ok THEN "ok" ELSE "failed",
                                     !.book = res.book,
                                     !.candidates = valid_numbers]
             /\ IF valid_numbers = <<>>
                THEN /\ report' = AllExistReport(run.stats)
                     /\ pc' = "idle"
                     /\ run' = NoRun
                ELSE /\ report' = report
                     /\ pc' = "loop"
                     /\ run' = [run EXCEPT !.valid_numbers = valid_numbers]
    /\ UNCHANGED <<session, registered, importedShape, operations_log, bulk,
                   single, raised, calls, slept, ops>>

\* i in range(0, len(valid_numbers), batch_size)
InRange == run.batch_size > 0 /\ run.i < Len(run.valid_numbers)

\* a faulty slice that starts one record late
BatchFromNext == Slice(run.valid_numbers, run.i + 1, run.i + run.batch_size)

\* batch = valid_numbers[i:i + batch_size]
Batch == Slice(run.valid_numbers, run.i, run.i + run.batch_size)

\* batch_num = (i // batch_size) + 1
BatchNum == (run.i \div run.batch_size) + 1

\* a faulty loop step that stays on a batch whose call was rate-limited
NextIndexAfterRetry ==
    IF calls # <<>> /\ calls[Len(calls)].kind = "flood"
    THEN run.i
    ELSE run.i + run.batch_size

\* a faulty loop step that tries a batch again when its call raised a
\* transport error
NextIndexRetryOnError ==
    IF calls # <<>> /\ calls[Len(calls)].kind = "error"
    THEN run.i
    ELSE run.i + run.batch_size

\* the value of i in the next iteration of the batch loop
NextIndex == run.i + run.batch_size

\* range(0, n, 0) raises ValueError, which import_from_file does not catch
RangeError ==
    /\ pc = "loop"
    /\ run.batch_size = 0
    /\ raised' = "ValueError"
    /\ report' = NoReport
    /\ pc' = "idle"
    /\ run' = NoRun
    /\ UNCHANGED <<session, registered, importedShape, operations_log, bulk,
                   single, calls, slept, ops, hist>>

\* a faulty except branch that starts the log afresh
ExceptBatchOverwriting(totals, text) ==
    /\ run' = [totals EXCEPT !.total_failed = @ + Len(Batch),
                             !.all_errors = Append(@, Msg("Batch {n}: {arg}", BatchNum, text)),
                             !.i = NextIndex]
    /\ operations_log' =
            [k \in 1..Len(Batch) |-> ContactOperation(Batch[k], FALSE, text)]

\* a faulty except branch that logs no operation
ExceptBatchUnlogged(totals, text) ==
    /\ run' = [totals EXCEPT !.total_failed = @ + Len(Batch),
                             !.all_errors = Append(@, Msg("Batch {n}: {arg}", BatchNum, text)),
                             !.i = NextIndex]
    /\ operations_log' = operations_log

\* the except branch of the batch loop, entered with the totals in `totals`
\* (a record shaped like run): count the batch as failed, note the error,
\* log a failed operation per member, go to the next batch
ExceptBatch(totals, text) ==
    /\ run' = [totals EXCEPT !.total_failed = @ + Len(Batch),
                             !.all_errors = Append(@, Msg("Batch {n}: {arg}", BatchNum, text)),
                             !.i = NextIndex]
    /\ operations_log' = operations_log \o
            [k \in 1..Len(Batch) |-> ContactOperation(Batch[k], FALSE, text)]

\* one iteration up to the first await inside add_contacts_bulk:
\* _process_batch passes only the batch, so add_contacts_bulk runs with its
\* default batch_size and name_prefix
BatchStart ==
    /\ pc = "loop"
    /\ InRange
    /\ hist' = [hist EXCEPT !.iterations = @ + 1]
    /\ \E auth \in AuthChecks(session) :
         IF auth.raises
         THEN /\ ExceptBatch(run, auth.text)
              /\ pc' = "loop"
              /\ bulk' = bulk
         ELSE /\ bulk' = [NoBulk EXCEPT !.phone_numbers = Batch,
                                        !.valid_numbers = FilterValid(Batch)]
              /\ pc' = "bulk"
              /\ UNCHANGED <<run, operations_log>>
    /\ UNCHANGED <<session, registered, importedShape, single, report, raised,
                   calls, slept, ops>>

\* the record kept of one ImportContactsRequest: the contacts sent, the
\* PhoneNumber records they were built from, where the first of them stands
\* in the run's candidate list, what the service did, the time slept
\* before the call, and how many operations the current call had logged and
\* how many records its totals counted when the request was issued
RemoteCall(op, offset, numbers, contacts, o) ==
    [op |-> op, offset |-> offset, numbers |-> numbers, contacts |-> contacts,
     kind |-> o.kind, seconds |-> o.seconds, text |-> o.text, slept |-> slept,
     logged |-> Len(operations_log) - hist.logStart,
     counted |-> run.total_successful + run.total_failed]

\* a request that has been issued and not yet answered
Pending == [kind |-> "pending", seconds |-> 0, text |-> "", retry |-> 0]

\* the last request of the current call, once the service has done o
Answered(o) ==
    [calls EXCEPT ![Len(calls)] =
        [@ EXCEPT !.kind = o.kind, !.seconds = o.seconds, !.text = o.text]]

\* a faulty send that goes on without awaiting the answer
AfterSendNoAwait == "bulk"

\* where add_contacts_bulk stands after issuing a request: suspended in
\* `await self.client(ImportContactsRequest(contacts))`
AfterSend == "call"

\* self.client and self.client.is_connected()
Connected == session \in {"ok", "unauthorized"}

\* the next chunk of the loop of add_contacts_bulk and its contacts
Chunk == Slice(bulk.valid_numbers, bulk.i, bulk.i + bulk.batch_size)
ChunkContacts == BuildContacts(Chunk, bulk.name_prefix)

\* _add_contacts_batch up to its await: on a connected client, build the
\* contacts of the next chunk and issue the request
BulkSend ==
    /\ pc = "bulk"
    /\ bulk.i < Len(bulk.valid_numbers)
    /\ Connected
    /\ calls' = Append(calls, RemoteCall("import", run.i + bulk.i, Chunk,
                                         ChunkContacts, Pending))
    /\ pc' = AfterSend
    /\ UNCHANGED <<session, registered, importedShape, operations_log, run,
                   bulk, single, report, raised, slept, ops, hist>>

\* the rest of one iteration of the loop of add_contacts_bulk: the result
\* of _add_contacts_batch (not connected, or what the request came back
\* with), the merge, and the pause before the following chunk
BulkStep ==
    /\ LET more == bulk.i + bulk.batch_size < Len(bulk.valid_numbers)
       IN  /\ \/ /\ pc = "bulk"
                 /\ bulk.i < Len(bulk.valid_numbers)
                 /\ ~Connected
                 /\ bulk' = [bulk EXCEPT !.results = MergeResults(@, NotConnectedResult(Chunk)),
                                         !.i = @ + bulk.batch_size]
                 /\ calls' = calls
              \/ /\ pc = "call"
                 /\ \E o \in Outcomes :
                      /\ bulk' = [bulk EXCEPT
                                    !.results = MergeResults(@, AddContactsBatch(ChunkContacts, o, registered)),
                                    !.i = @ + bulk.batch_size]
                      /\ calls' = Answered(o)
           /\ slept' = slept + (IF more THEN BulkPause ELSE 0)
    /\ pc' = "bulk"
    /\ UNCHANGED <<session, registered, importedShape, operations_log, run,
                   single, report, raised, ops, hist>>

\* a faulty log whose membership test is inverted
LogBatchInverted(batch, batch_result, shape) ==
    LET phones == {PhoneAttr(batch_result.imported_contacts[k], shape) :
                       k \in 1..Len(batch_result.imported_contacts)}
    IN  [k \in 1..Len(batch) |->
            ContactOperation(batch[k], batch[k].formatted \notin phones,
                             IF batch[k].formatted \notin phones THEN None ELSE "Import failed")]

\* "Log individual operations": an operation per member of the batch,
\* successful when its number is among the phones of the imported contacts
LogBatch(batch, batch_result, shape) ==
    LET phones == {PhoneAttr(batch_result.imported_contacts[k], shape) :
                       k \in 1..Len(batch_result.imported_contacts)}
    IN  [k \in 1..Len(batch) |->
            ContactOperation(batch[k], batch[k].formatted \in phones,
                             IF batch[k].formatted \in phones THEN None ELSE "Import failed")]

\* the rest of the iteration once add_contacts_bulk has returned: add the
\* batch result to the totals, log the operations (reading .phone raises
\* when the imported contacts have no such attribute, which lands in the
\* except branch), pause before the next batch
BatchFold ==
    /\ pc = "bulk"
    /\ bulk.i >= Len(bulk.valid_numbers)
    /\ LET batch_result == bulk.results
           totals == [run EXCEPT !.total_successful = @ + batch_result.successful,
                                 !.total_failed = @ + batch_result.failed,
                                 !.all_errors = @ \o batch_result.errors]
           more == run.i + run.batch_size < Len(run.valid_numbers)
       IN  IF batch_result.imported_contacts # <<>> /\ importedShape = "no_phone"
           THEN /\ ExceptBatch(totals, NoPhoneAttrText)
                /\ slept' = slept
           ELSE /\ operations_log' = operations_log \o LogBatch(Batch, batch_result, importedShape)
                /\ run' = [totals EXCEPT !.i = NextIndex]
                /\ slept' = slept + (IF more THEN BatchPause ELSE 0)
    /\ pc' = "loop"
    /\ bulk' = NoBulk
    /\ UNCHANGED <<session, registered, importedShape, single, report, raised,
                   calls, ops, hist>>

\* the return statement after the loop
Finish ==
    /\ pc = "loop"
    /\ ~InRange
    /\ run.batch_size # 0
    /\ report' = Report("run", run.total_successful > 0, None,
                        [run.stats EXCEPT !.success_rate =
                            IF run.valid_numbers # <<>>
                            THEN Rate(run.total_successful, Len(run.valid_numbers))
                            ELSE ZeroRate],
                        Len(run.valid_numbers), run.total_successful, run.total_failed,
                        run.all_errors,
                        LastItems(operations_log, Len(run.valid_numbers)))
    /\ pc' = "idle"
    /\ run' = NoRun
    /\ UNCHANGED <<session, registered, importedShape, operations_log, bulk,
                   single, raised, calls, slept, ops, hist>>

(* -------------------- ContactManager.add_single_contact ---------------- *)

\* the operation add_single_contact returns, as a report
OperationReport(operation) ==
    Report("operation", operation.success, operation.error_message, EmptyStats,
           0, 0, 0, <<>>, <<operation>>)

\* the call up to its await: phone is what parse_number made of the text;
\* an invalid number is logged as failed and never reaches the client
AddSingleContact(phone, first_name) ==
    /\ pc = "idle"
    /\ ops' = ops + 1
    /\ raised' = None
    /\ calls' = <<>>
    /\ slept' = 0
    /\ hist' = StartHist("single", <<phone>>, 1, FALSE)
    /\ IF ~phone.is_valid
       THEN LET operation == ContactOperation(phone, FALSE,
                                 IF phone.error_message # None
                                 THEN phone.error_message ELSE "Invalid phone number")
            IN  /\ operations_log' = Append(operations_log, operation)
                /\ report' = OperationReport(operation)
                /\ pc' = "idle"
                /\ single' = NoSingle
       ELSE /\ single' = [phone |-> phone,
                          first_name |-> IF first_name # <<>> THEN first_name
                                         ELSE DefaultPrefix \o <<" ">> \o LastChars(phone.formatted, 4),
                          last_name |-> <<>>]
            /\ pc' = "single"
            /\ report' = NoReport
            /\ operations_log' = operations_log
    /\ UNCHANGED <<session, registered, importedShape, run, bulk>>

\* what TelegramContactManager.add_single_contact returns once the remote
\* call has answered or raised: True for any answer, imported or not
SingleResult(o) == o.kind = "ok"

\* TelegramContactManager.add_single_contact and the logging of its result
SingleCall ==
    /\ pc = "single"
    /\ LET contact == [client_id |-> 0,
                       phone |-> RemoveChar(single.phone.formatted, "+"),
                       first_name |-> single.first_name,
                       last_name |-> single.last_name]
           Done(success) ==
               LET operation == ContactOperation(single.phone, success,
                                    IF success THEN None ELSE "Failed to add contact")
               IN  /\ operations_log' = Append(operations_log, operation)
                   /\ report' = OperationReport(operation)
       IN  IF ~single.phone.is_valid \/ session # "ok"
           THEN /\ Done(FALSE)
                /\ calls' = calls
           ELSE \E o \in Outcomes :
                /\ Done(SingleResult(o))
                /\ calls' = Append(calls, RemoteCall("single", 0, <<single.phone>>, <<contact>>, o))
    /\ pc' = "idle"
    /\ single' = NoSingle
    /\ UNCHANGED <<session, registered, importedShape, run, bulk, raised, slept,
                   ops, hist>>

(* ----------------------------- environment ----------------------------- *)

\* the connection to the service is lost
DropConnection ==
    /\ session = "ok"
    /\ session' = "disconnected"
    /\ hist' = [hist EXCEPT !.okThroughout = FALSE]
    /\ UNCHANGED <<registered, importedShape, operations_log, pc, run, bulk,
                   single, report, raised, calls, slept, ops>>

\* the call is suspended in an await: the contact lookup, the
\* authorization check or the pause before a batch, a request, the pause
\* between chunks, or the single-contact request
Suspended ==
    \/ pc \in {"lookup", "bulk", "call", "single"}
    \/ pc = "loop" /\ InRange

\* the task running the call is cancelled: asyncio raises CancelledError at
\* the await the call is suspended in; it is a BaseException, which no
\* `except Exception` of the call catches, so it leaves the call, and the
\* request in flight, if any, is abandoned
Cancel ==
    /\ Suspended
    /\ raised' = "CancelledError"
    /\ report' = NoReport
    /\ pc' = "idle"
    /\ run' = NoRun
    /\ bulk' = NoBulk
    /\ single' = NoSingle
    /\ calls' = IF pc = "call"
                THEN Answered([kind |-> "cancelled", seconds |-> 0, text |-> ""])
                ELSE calls
    /\ hist' = [hist EXCEPT !.cancelled = TRUE]
    /\ UNCHANGED <<session, registered, importedShape, operations_log, slept, ops>>

\* a fresh manager makes one import run
Next ==
    \/ /\ ops = 0
       /\ \E in \in RunInputs, skip \in BOOLEAN, prefix \in Prefixes :
              ImportFromFile(in[1], skip, in[2], prefix)
    \/ Lookup
    \/ RangeError
    \/ BatchStart
    \/ BulkSend
    \/ BulkStep
    \/ BatchFold
    \/ Finish
    \/ Cancel
    \/ DropConnection

Spec == Init /\ [][Next]_vars

\* a manager makes up to MaxOps calls in a row
NextOps ==
    \/ /\ ops < MaxOps
       /\ \E in \in OpInputs, skip \in BOOLEAN :
              ImportFromFile(in[1], skip, in[2], DefaultPrefix)
    \/ /\ ops < MaxOps
       /\ \E phone \in Samples : AddSingleContact(phone, <<>>)
    \/ Lookup
    \/ RangeError
    \/ BatchStart
    \/ BulkSend
    \/ BulkStep
    \/ BatchFold
    \/ Finish
    \/ SingleCall
    \/ Cancel
    \/ DropConnection

SpecOps == Init /\ [][NextOps]_vars

\* a fresh manager is asked to add one contact, given as text
NextParse ==
    \/ /\ ops = 0
       /\ \E phone_str \in RawInputs, first_name \in {<<>>, OtherPrefix} :
              AddSingleContact(parse_number(phone_str), first_name)
    \/ SingleCall
    \/ Cancel
    \/ DropConnection

SpecParse == Init /\ [][NextParse]_vars

\* the (file, batch_size) pairs of a run with a batch size of at least 1:
\* the missing file and a file of each length up to MaxLines whose records
\* are valid
FairInputs ==
    ({[exists |-> TRUE, numbers |-> SubSeq(LongList, 1, n)] : n \in 0..MaxLines}
     \cup {MissingFile})
    \X {1, 2}

\* what the event loop does with a run that is ready to go on: the steps of
\* import_from_file and add_contacts_bulk, each remote call returning
RunStep ==
    \/ Lookup
    \/ BatchStart
    \/ BulkSend
    \/ BulkStep
    \/ BatchFold
    \/ Finish

\* one run on a fresh manager; the connection may drop and the task may be
\* cancelled at any time
NextFair ==
    \/ /\ ops = 0
       /\ \E in \in FairInputs, skip \in BOOLEAN :
              ImportFromFile(in[1], skip, in[2], DefaultPrefix)
    \/ RunStep
    \/ Cancel
    \/ DropConnection

(* -------------------------- create_contact_manager -------------------- *)

\* what connect() can meet: the client cannot be built, the service cannot
\* be reached, the session is not authorized, it is a user's, it is a bot's
ConnectOutcomes == {"no_client", "unreachable", "unauthorized", "user", "bot"}

\* TelegramContactManager.connect: the client it leaves behind (its return
\* value is not used by create_contact_manager); a bot session is
\* disconnected before the exception that connect itself catches
ConnectedAs(o) ==
    CASE o = "no_client" -> "none"
      [] o = "unreachable" -> "disconnected"
      [] o = "unauthorized" -> "unauthorized"
      [] o = "user" -> "ok"
      [] o = "bot" -> "disconnected"

\* telegram_manager.client.is_user_authorized() after connect(): with no
\* client the attribute access raises, an unreachable service makes the
\* request raise, and the disconnected client of a bot session answers
\* from what it learned while connected or raises
IsUserAuthorized(o) ==
    CASE o = "no_client" -> {"raises"}
      [] o = "unreachable" -> {"raises"}
      [] o = "unauthorized" -> {"no"}
      [] o = "user" -> {"yes"}
      [] o = "bot" -> {"yes", "raises"}

\* the state before create_contact_manager is called: no client yet
InitCreate ==
    /\ session = "none"
    /\ registered \in SUBSET Registrable
    /\ importedShape \in {"no_phone", "plain", "plus"}
    /\ registered = {} => importedShape = "no_phone"
    /\ operations_log = <<>>
    /\ pc = "idle"
    /\ run = NoRun
    /\ bulk = NoBulk
    /\ single = NoSingle
    /\ report = NoReport
    /\ raised = None
    /\ calls = <<>>
    /\ slept = 0
    /\ ops = 0
    /\ hist = NoHist

\* what create_contact_manager returns, as a report
ManagerReport(manager) ==
    Report(IF manager THEN "manager" ELSE "no_manager", manager, None, EmptyStats,
           0, 0, 0, <<>>, <<>>)

\* create_contact_manager: saved says whether load_session_info found a
\* session file, credentials whether api_id and api_hash were given,
\* phone_number whether a phone number was given
CreateContactManager(saved, credentials, phone_number) ==
    /\ pc = "idle"
    /\ hist.op = "none"
    /\ IF ~saved /\ ~credentials
       THEN /\ report' = ManagerReport(FALSE)
            /\ session' = session
            /\ hist' = [NoHist EXCEPT !.op = "create", !.phone_number = phone_number]
       ELSE \E o \in ConnectOutcomes :
              /\ hist' = [NoHist EXCEPT !.op = "create", !.connect = o,
                                        !.phone_number = phone_number]
              /\ \E authorized \in IsUserAuthorized(o) :
                   CASE authorized = "raises" ->
                          /\ report' = ManagerReport(FALSE)
                          /\ session' = ConnectedAs(o)
                     [] authorized = "yes" ->
                          /\ report' = ManagerReport(TRUE)
                          /\ session' = ConnectedAs(o)
                     [] authorized = "no" ->
                          IF phone_number
                          THEN \E success \in BOOLEAN :
                                 /\ report' = ManagerReport(success)
                                 /\ session' = IF success THEN "ok" ELSE "disconnected"
                          ELSE /\ report' = ManagerReport(TRUE)
                               /\ session' = ConnectedAs(o)
    /\ UNCHANGED <<registered, importedShape, operations_log, pc, run, bulk,
                   single, raised, calls, slept, ops>>

\* create_contact_manager, then one run on the manager it returned
NextCreate ==
    \/ \E saved \in BOOLEAN, credentials \in BOOLEAN, phone_number \in BOOLEAN :
          CreateContactManager(saved, credentials, phone_number)
    \/ /\ ops = 0
       /\ report.kind = "manager"
       /\ \E in \in FairInputs, skip \in BOOLEAN :
              ImportFromFile(in[1], skip, in[2], DefaultPrefix)
    \/ RunStep
    \/ Cancel
    \/ DropConnection

SpecCreate == InitCreate /\ [][NextCreate]_vars

\* one run on a fresh manager over a text file that parse_phone_file reads
NextScan ==
    \/ /\ ops = 0
       /\ \E file \in TextFiles, skip \in BOOLEAN :
              ImportFromFile(file, skip, BulkBatchSize, DefaultPrefix)
    \/ RunStep
    \/ Cancel
    \/ DropConnection

SpecScan == Init /\ [][NextScan]_vars

\* a coroutine that can go on is resumed, and every request is answered
SpecFair == Init /\ [][NextFair]_vars /\ WF_vars(RunStep)

(* ------------------------------ properties ----------------------------- *)

\* the current call is an import run that has returned its run report
RunDone == hist.op = "import" /\ pc = "idle" /\ report.kind = "run"

\* the number of candidates the calls of the run have carried so far
SentCount ==
    IF calls = <<>> THEN 0
    ELSE calls[Len(calls)].offset + Len(calls[Len(calls)].numbers)

\* the position in the candidate list right after the contacts of call k
CallEnd(k) == calls[k].offset + Len(calls[k].numbers)

CeilDiv(n, b) == (n + b - 1) \div b

\* C2: a run over n candidates with batch_size b >= 1 issues exactly
\* ceil(n/b) remote calls, of sizes b, ..., b and a final remainder, also
\* when b is larger than 50.
C2_OneCallPerBatch ==
    (RunDone /\ hist.okThroughout /\ hist.batch_size >= 1) =>
        /\ Len(calls) = CeilDiv(Len(hist.candidates), hist.batch_size)
        /\ \A k \in 1..Len(calls) :
              Len(calls[k].numbers) =
                  IF k < Len(calls) THEN hist.batch_size
                  ELSE Len(hist.candidates) - (k - 1) * hist.batch_size

\* the operations the current call has appended to the log
Appended == SubSeq(operations_log, hist.logStart + 1, Len(operations_log))

\* C3: no remote call has ever carried a record with is_valid = false, and
\* add_single_contact on an invalid number logs one failed operation for it
\* and returns without a remote call.
C3_NoInvalidSent ==
    /\ \A k \in 1..Len(calls) :
          \A m \in 1..Len(calls[k].numbers) : calls[k].numbers[m].is_valid
    /\ (hist.op = "single" /\ ~hist.parsed[1].is_valid) =>
          /\ pc = "idle"
          /\ calls = <<>>
          /\ Len(Appended) = 1
          /\ Appended[1].phone = hist.parsed[1]
          /\ ~Appended[1].success

\* C3 witness: after add_single_contact on an invalid number, an import of
\* a file with an invalid and a valid line has made a remote call
C3_Witness ==
    /\ ops = 2
    /\ hist.op = "import"
    /\ \E k \in 1..Len(hist.parsed) : ~hist.parsed[k].is_valid
    /\ calls # <<>>
    /\ hist.logStart = 1
    /\ ~operations_log[1].phone.is_valid

\* C4: after the remote call of a batch was rate-limited with a wait of N
\* seconds, the run sleeps at least N time units before the remote call of
\* the next batch (batches no larger than one bulk call, so that each batch
\* is one remote call).
C4_WaitAfterFlood ==
    (hist.op = "import" /\ hist.batch_size <= BulkBatchSize) =>
        \A k \in 1..(Len(calls) - 1) :
            calls[k].kind = "flood" =>
                calls[k + 1].slept - calls[k].slept >= calls[k].seconds

\* C5: a rate-limited batch is not sent again: every later call of the run
\* starts after the candidates of the earlier ones, so each candidate is in
\* at most one call and a run makes no more calls than it has candidates.
C5_NoResubmission ==
    hist.op = "import" =>
        /\ \A k \in 1..(Len(calls) - 1) : calls[k + 1].offset >= CallEnd(k)
        /\ Len(calls) <= Len(hist.candidates)

\* C5 witness: a finished run in which a rate-limited call was followed by
\* the call for the next batch
C5_Witness ==
    /\ RunDone
    /\ \E k \in 1..(Len(calls) - 1) :
          calls[k].kind = "flood" /\ calls[k + 1].offset = CallEnd(k)

\* C6: a run with batch_size >= 1 appends exactly one operation per
\* attempted candidate, in candidate order: every batch gone through has
\* its operations, none twice, and the finished run has one per candidate.
C6_OneOperationEach ==
    (hist.op = "import" /\ hist.batch_size >= 1) =>
        /\ Len(Appended) <= Len(hist.candidates)
        /\ \A k \in 1..Len(Appended) : Appended[k].phone = hist.candidates[k]
        /\ pc = "loop" => Len(Appended) = Min(run.i, Len(run.valid_numbers))
        /\ RunDone => Len(Appended) = Len(hist.candidates)

\* C6 witness: a finished run of two batches, one whose bookkeeping raised
\* and one that was rate-limited, with an operation for each candidate
C6_Witness ==
    /\ RunDone
    /\ hist.batch_size >= 1
    /\ Len(Appended) = Len(hist.candidates)
    /\ \E k \in 1..Len(Appended) : Appended[k].error_message = NoPhoneAttrText
    /\ \E k \in 1..Len(calls) : calls[k].kind = "flood"

\* C7: a run started on a session that is not connected and authorized is
\* aborted before any batch: no batch is begun, no remote call is made, and
\* what it returns is a failed report carrying an error.
C7_AbortBeforeAnyBatch ==
    (hist.op = "import" /\ ~hist.okAtStart /\ hist.batch_size >= 1) =>
        /\ calls = <<>>
        /\ hist.iterations = 0
        /\ Appended = <<>>
        /\ pc = "idle" =>
              (~report.success /\ (report.error # None \/ report.errors # <<>>))

\* C8: when the remote call of a batch raised a transport error, every
\* member of that batch is logged as failed with the text of that error
\* (as raised, or as _add_contacts_batch rewords it).
C8_TransportErrorText ==
    (RunDone /\ hist.batch_size >= 1) =>
        \A k \in 1..Len(calls) :
            calls[k].kind = "error" =>
                \A m \in 1..Len(calls[k].numbers) :
                    /\ ~Appended[calls[k].offset + m].success
                    /\ Appended[calls[k].offset + m].error_message
                           \in {calls[k].text, BotText}

\* the remote call that carried the j-th record of the current call answered
AnsweredAt(j) ==
    \E k \in 1..Len(calls) :
        calls[k].offset < j /\ j <= CallEnd(k) /\ calls[k].kind = "ok"

\* ... and the service imported that record
AcceptedAt(j) ==
    \E k \in 1..Len(calls) :
        /\ calls[k].offset < j
        /\ j <= CallEnd(k)
        /\ calls[k].kind = "ok"
        /\ calls[k].contacts[j - calls[k].offset].phone \in registered

\* C9: an operation is logged with success = true only if the service
\* imported its record; any other is logged with success = false and a
\* reason, by import_from_file and by add_single_contact alike.
C9_SuccessOnlyIfAccepted ==
    \A j \in 1..Len(Appended) :
        /\ Appended[j].success => AcceptedAt(j)
        /\ ~Appended[j].success => Appended[j].error_message # None

\* C9 as amended: import_from_file logs success = true only for a record
\* the service imported; add_single_contact logs success = true exactly when
\* its remote call answered without raising, imported or not; every failed
\* operation carries a reason.
C9_SuccessAsLogged ==
    \A j \in 1..Len(Appended) :
        /\ hist.op = "import" => (Appended[j].success => AcceptedAt(j))
        /\ hist.op = "single" => (Appended[j].success <=> AnsweredAt(j))
        /\ ~Appended[j].success => Appended[j].error_message # None

\* C9 witness: after an import that logged a success, add_single_contact
\* logged success for a number the service did not import
C9_Witness ==
    /\ ops = 2
    /\ hist.op = "single"
    /\ hist.logStart >= 1
    /\ operations_log[1].success
    /\ Len(Appended) = 1
    /\ Appended[1].success
    /\ ~AcceptedAt(1)

AllAttemptsFailed ==
    /\ RunDone
    /\ hist.batch_size >= 1
    /\ hist.iterations >= 1
    /\ \A k \in 1..Len(calls) : calls[k].kind # "ok"

\* C12: a run none of whose attempts reached the service returns a report
\* with success = false and an errors list holding at least one text per
\* batch, none of them empty; the operations logged before the call are
\* still the head of the log, and the log holds the failed operations of
\* the run's candidates after them.
C12_FailedRunReport ==
    AllAttemptsFailed =>
        /\ ~report.success
        /\ report.errors # <<>>
        /\ Len(report.errors) >= hist.iterations
        /\ \A k \in 1..Len(report.errors) :
              report.errors[k].fmt # "" /\ report.errors[k] # PlainMsg("")
        /\ Len(operations_log) >= hist.logStart
        /\ SubSeq(operations_log, 1, hist.logStart) = hist.ledger
        /\ \A k \in 1..Len(Appended) :
              Appended[k].phone = hist.candidates[k] /\ ~Appended[k].success

\* C12 witness: after an earlier operation, a run started on a connected
\* session, lost the connection and had no call answered
C12_Witness ==
    /\ AllAttemptsFailed
    /\ ops = 2
    /\ hist.logStart >= 1
    /\ hist.okAtStart
    /\ ~hist.okThroughout
    /\ hist.iterations = 1
    /\ Len(Appended) = 1
    /\ ~report.success
    /\ report.errors # <<>>

\* C13: the log only grows: every step leaves the operations logged so far
\* in place, unchanged and in order, whichever call makes it and however
\* the call ends.
C13_AppendOnly ==
    [][/\ Len(operations_log') >= Len(operations_log)
       /\ SubSeq(operations_log', 1, Len(operations_log)) = operations_log]_vars

\* C13 witness: the second call has added to a log that held a successful
\* operation, and its own operations failed
C13_Witness ==
    /\ ops = 2
    /\ pc = "idle"
    /\ hist.logStart >= 1
    /\ hist.ledger[1].success
    /\ SubSeq(operations_log, 1, hist.logStart) = hist.ledger
    /\ Len(Appended) >= 1
    /\ \A k \in 1..Len(Appended) : ~Appended[k].success

\* C14: every contact a run sends carries the display name made of the
\* name_prefix the run was called with, a space, and the last 4 characters
\* of its E.164 number.
C14_NamePrefix ==
    hist.op = "import" =>
        \A k \in 1..Len(calls) :
            \A m \in 1..Len(calls[k].contacts) :
                calls[k].contacts[m].first_name =
                    hist.name_prefix \o <<" ">>
                        \o LastChars(calls[k].numbers[m].formatted, 4)

\* r is the fraction part / whole * 100
IsRate(r, part, whole) ==
    /\ r.raises = None
    /\ r.den # 0
    /\ r.num * whole = part * 100 * r.den

\* r is what a success-rate computation over `whole` items may yield: the
\* quotient, or 0 when there is nothing to divide by
IsGuardedRate(r, part, whole) ==
    IF whole = 0 THEN r = ZeroRate ELSE IsRate(r, part, whole)

\* C15: the success rate of a run report is successful / attempted * 100,
\* and the rates of the run report, of the parse statistics and of the
\* operation summary are 0, with no division by zero, when they are taken
\* over nothing.
C15_SuccessRates ==
    /\ RunDone =>
          /\ report.attempted = Len(hist.candidates)
          /\ IsGuardedRate(report.stats.success_rate, report.successful,
                           report.attempted)
    /\ hist.op = "import" =>
          LET stats == get_stats(hist.parsed)
          IN  IsGuardedRate(stats.success_rate, stats.valid, stats.total)
    /\ report.kind \in {"no_valid", "all_exist"} =>
          IsGuardedRate(report.stats.success_rate, report.stats.valid,
                        report.stats.total)
    /\ LET summary == get_operation_summary(operations_log)
       IN  IsGuardedRate(summary.success_rate, summary.successful,
                         summary.total_operations)

\* C15 witness: a finished run that imported one of its two candidates
C15_Witness ==
    /\ RunDone
    /\ report.attempted = 2
    /\ report.successful = 1
    /\ report.stats.success_rate = Rate(1, 2)
    /\ get_operation_summary(operations_log).success_rate = Rate(1, 2)

\* C15 witness of the empty cases: a file without lines has been parsed
\* and nothing has been logged
C15_WitnessEmpty ==
    /\ hist.op = "import"
    /\ hist.parsed = <<>>
    /\ report.kind = "no_valid"
    /\ report.stats.success_rate = ZeroRate
    /\ operations_log = <<>>

\* the requests of the current call that are in flight
InFlight == {k \in 1..Len(calls) : calls[k].kind = "pending"}

\* the first candidate of the batch that call k belongs to
BatchStartOf(k) == (calls[k].offset \div hist.batch_size) * hist.batch_size

\* C16: in a run at most one request is in flight, the one issued last and
\* only while add_contacts_bulk awaits it; and when the request of a batch
\* was issued, every record of the batches before it had been logged and
\* counted in the totals.
C16_Sequential ==
    (hist.op = "import" /\ hist.batch_size >= 1) =>
        /\ Cardinality(InFlight) <= 1
        /\ \A k \in InFlight : k = Len(calls) /\ pc = "call"
        /\ \A k \in 1..Len(calls) :
              /\ calls[k].logged = BatchStartOf(k)
              /\ calls[k].counted >= BatchStartOf(k)

\* C16 witness: the request of the second batch is in flight after the
\* first batch, whose request was answered, has been logged and counted
C16_Witness ==
    /\ hist.op = "import"
    /\ hist.batch_size = 1
    /\ Len(calls) = 2
    /\ calls[1].kind = "ok"
    /\ InFlight = {2}
    /\ calls[2].logged = 1
    /\ calls[2].counted = 1
    /\ Len(Appended) = 1

\* C17: a run whose task was cancelled still returns: it ends with the run
\* report and without an exception, no request is left abandoned, and the
\* report counts exactly the records of the batches gone through, the ones
\* the run has logged.
C17_CancelledRunReports ==
    (hist.op = "import" /\ hist.cancelled /\ pc = "idle") =>
        /\ raised = None
        /\ report.kind = "run"
        /\ \A k \in 1..Len(calls) : calls[k].kind # "cancelled"
        /\ report.successful + report.failed = Len(Appended)

\* the batch an entry of the errors list names, 0 when it names none
NamesBatch(e) == IF e.fmt = "Batch {n}: {arg}" THEN e.n ELSE 0

\* the wait in seconds an entry of the errors list states, 0 when none
StatesWait(e) == IF e.fmt = "Rate limited: wait {n} seconds" THEN e.n ELSE 0

\* the number of the batch that call k belongs to
BatchNumOf(k) == (calls[k].offset \div hist.batch_size) + 1

\* C20: when the request of a batch was rate-limited with a wait of N
\* seconds, the finished run has logged every record of the batch as
\* failed, and the errors of its report state the wait of N seconds and
\* name the batch (batches no larger than one bulk call, so that each
\* batch is one request).
C20_RateLimitReported ==
    (RunDone /\ hist.batch_size >= 1 /\ hist.batch_size <= BulkBatchSize) =>
        \A k \in 1..Len(calls) :
            calls[k].kind = "flood" =>
                /\ \A m \in 1..Len(calls[k].numbers) :
                       /\ Appended[calls[k].offset + m].phone = calls[k].numbers[m]
                       /\ ~Appended[calls[k].offset + m].success
                /\ \E j \in 1..Len(report.errors) :
                       StatesWait(report.errors[j]) = calls[k].seconds
                /\ \E j \in 1..Len(report.errors) :
                       NamesBatch(report.errors[j]) = BatchNumOf(k)

\* the part of C20 the code keeps: the records of a rate-limited batch are
\* logged as failed and an entry of the errors states the wait
RateLimitedBatchFailed ==
    (RunDone /\ hist.batch_size >= 1 /\ hist.batch_size <= BulkBatchSize) =>
        \A k \in 1..Len(calls) :
            calls[k].kind = "flood" =>
                /\ \A m \in 1..Len(calls[k].numbers) :
                       /\ Appended[calls[k].offset + m].phone = calls[k].numbers[m]
                       /\ ~Appended[calls[k].offset + m].success
                /\ \E j \in 1..Len(report.errors) :
                       StatesWait(report.errors[j]) = calls[k].seconds

\* the record parse_number made of the text add_single_contact was given
ParsedNumber == hist.parsed[1]

\* s is 12 digits that begin with 82102
IsRegionPrefixed(s) ==
    /\ Len(s) = 12
    /\ StartsWith(s, <<"8", "2", "1", "0", "2">>)
    /\ \A i \in 1..Len(s) : s[i] \in Digits

\* C18: a 12-digit string that begins with 82102 is cleaned to +852 and its
\* last 7 digits, and the record parse_number returns for it carries a
\* number under +852.
C18_RegionPrefixRewrite ==
    (hist.op = "single" /\ IsRegionPrefixed(ParsedNumber.raw)) =>
        /\ RemoveChar(_clean_phone_number(ParsedNumber.raw), " ")
               = <<"+", "8", "5", "2">> \o From(ParsedNumber.raw, 5)
        /\ StartsWith(ParsedNumber.formatted, <<"+", "8", "5", "2">>)

\* what the code does with such a string: the '+' is put in front of it
\* first, so the rewrite does not apply and the number is read under +82
RegionPrefixReadAsKR ==
    (hist.op = "single" /\ IsRegionPrefixed(ParsedNumber.raw)) =>
        /\ _clean_phone_number(ParsedNumber.raw) = <<"+">> \o ParsedNumber.raw
        /\ ParsedNumber.formatted = <<"+">> \o ParsedNumber.raw
        /\ ParsedNumber.country_code = <<"+", "8", "2">>

\* s matches ^\+[1-9]\d{6,14}$
IsE164(s) ==
    /\ Len(s) >= 8
    /\ Len(s) <= 16
    /\ s[1] = "+"
    /\ s[2] \in Digits \ {"0"}
    /\ \A i \in 3..Len(s) : s[i] \in Digits

ValidShape(p) ==
    /\ p.is_valid
    /\ IsE164(p.formatted)
    /\ p.country_code # <<>>
    /\ p.error_message = None

InvalidShape(p) ==
    /\ ~p.is_valid
    /\ p.error_message \notin {None, ""}
    /\ p.country_code = <<>>
    /\ ~IsE164(p.formatted)

\* C19: the record parse_number returns is either valid, with an E.164
\* string, a country code and no error message, or invalid, with an error
\* message, no country code and no E.164 string.
C19_TwoShapes ==
    hist.op = "single" => (ValidShape(ParsedNumber) \/ InvalidShape(ParsedNumber))

\* the part of C19 the code keeps: the shapes, but for the text an invalid
\* record keeps in `formatted`
ShapesButFormatted ==
    hist.op = "single" =>
        \/ ValidShape(ParsedNumber)
        \/ /\ ~ParsedNumber.is_valid
           /\ ParsedNumber.error_message \notin {None, ""}
           /\ ParsedNumber.country_code = <<>>

\* C12 witness among the runs of a fresh manager: a run of two batches
\* lost the connection after its first request had raised
C12_WitnessTwoBatches ==
    /\ AllAttemptsFailed
    /\ hist.okAtStart
    /\ ~hist.okThroughout
    /\ hist.iterations = 2
    /\ Len(calls) = 1
    /\ Len(Appended) = 2

(* ------------------------------ C21 ----------------------------------- *)

\* requests k and k + 1 of the run belong to different batches of the loop
\* of import_from_file
NextBatchAt(k) ==
    /\ k + 1 <= Len(calls)
    /\ calls[k].op = "import"
    /\ BatchStartOf(k) # BatchStartOf(k + 1)

\* C21: between the submissions of two successive batches the pause of
\* BatchPause seconds is taken, whatever became of the earlier batch, and
\* nothing is slept after the last batch
C21_PauseBetweenBatches ==
    hist.op = "import" /\ hist.batch_size > 0 =>
        /\ \A k \in 1..Len(calls) :
              NextBatchAt(k) => calls[k + 1].slept >= calls[k].slept + BatchPause
        /\ RunDone /\ calls # <<>> => slept = calls[Len(calls)].slept

\* a batch the service accepted whose bookkeeping raised is followed by the
\* next batch with no pause
AcceptedBatchNoPause ==
    \E k \in 1..Len(calls) :
        /\ NextBatchAt(k)
        /\ calls[k].kind = "ok"
        /\ calls[k + 1].slept = calls[k].slept

(* ------------------------------ C22 ----------------------------------- *)

\* the operations the current call appended whose success flag is flag
AppendedWith(flag) == SelectSeq(Appended, LAMBDA operation : operation.success = flag)

\* C22: the successful and failed counts of a run's report are the numbers
\* of operations the run appended to the log with success true and with
\* success false.
C22_CountsMatchLedger ==
    RunDone =>
        /\ report.successful = Len(AppendedWith(TRUE))
        /\ report.failed = Len(AppendedWith(FALSE))

\* a finished run that reports an import no logged operation shows
ReportedButLoggedFailed ==
    /\ RunDone
    /\ hist.batch_size >= 1
    /\ report.successful > 0
    /\ AppendedWith(TRUE) = <<>>

(* ------------------------------ C26 ----------------------------------- *)

\* C26: in every report with run statistics the successful and the failed
\* count lie between 0 and attempted and add up to attempted.
C26_CountsAddUp ==
    report.kind = "run" =>
        /\ report.successful \in 0..report.attempted
        /\ report.failed \in 0..report.attempted
        /\ report.successful + report.failed = report.attempted

\* a finished run with batch_size >= 1 whose counts exceed what it attempted
CountedTwice ==
    /\ RunDone
    /\ hist.batch_size >= 1
    /\ report.successful + report.failed > report.attempted

(* ------------------------------ C27 ----------------------------------- *)

\* a call of import_from_file that has returned or raised without having
\* been cancelled
ImportEnded == hist.op = "import" /\ pc = "idle" /\ ~hist.cancelled

\* C27: whatever the batch_size (zero and negative included), a call of
\* import_from_file never raises; it returns either an error report,
\* having attempted nothing, or a report whose 'operations' are exactly
\* the operations this call appended, one per attempted record.
C27_AnyBatchSize ==
    ImportEnded =>
        /\ raised = None
        /\ \/ /\ report.kind \in {"parse_error", "no_valid"}
              /\ ~report.success
              /\ calls = <<>>
              /\ Appended = <<>>
           \/ /\ report.kind \in {"all_exist", "run"}
              /\ Len(Appended) = report.attempted
              /\ report.operations = Appended

\* a run with batch_size 0 that raised ValueError out of the call
ZeroBatchSizeRaises ==
    ImportEnded /\ hist.batch_size = 0 /\ raised = "ValueError"

\* a run with a negative batch_size that reports the operations of an
\* earlier call
NegativeBatchSizeOldOperations ==
    /\ ImportEnded
    /\ hist.batch_size < 0
    /\ report.kind = "run"
    /\ Appended = <<>>
    /\ report.attempted > 0
    /\ report.operations # <<>>

(* ------------------------------ C29 ----------------------------------- *)

\* the (request, position) pairs of the contacts the current call has sent
SentAt ==
    {kj \in (1..Len(calls)) \X (1..MaxLines) : kj[2] <= Len(calls[kj[1]].numbers)}

\* C29: within one run no E.164 number is submitted twice, also when the
\* file holds the same number on several lines.
C29_NoNumberTwice ==
    hist.op = "import" /\ Len(hist.parsed) <= MaxLines =>
        \A a \in SentAt, b \in SentAt :
            calls[a[1]].numbers[a[2]].formatted = calls[b[1]].numbers[b[2]].formatted
                => a = b

\* a file with the same number on two lines, sent in one request that
\* carries the number twice
SameNumberInOneRequest ==
    /\ hist.op = "import"
    /\ \E k \in 1..Len(calls) :
          /\ Len(calls[k].numbers) = 2
          /\ calls[k].numbers[1].formatted = calls[k].numbers[2].formatted

(* ------------------------------ C30 ----------------------------------- *)

\* the call of import_from_file has ended with one of the early returns
EndedEarly == ImportEnded /\ report.kind \in {"parse_error", "no_valid", "all_exist"}

\* every valid parsed number is a phone of the contact book the lookup
\* returned
AllInBook ==
    /\ hist.skip_existing
    /\ hist.lookup = "ok"
    /\ \A k \in 1..Len(hist.parsed) :
          hist.parsed[k].is_valid => RemoveChar(hist.parsed[k].formatted, "+") \in hist.book

\* C30: a call of import_from_file that ends early (the file cannot be
\* parsed, it holds no valid number, or every valid number is already a
\* contact) has sent no import request and leaves the log as it was; the
\* first two return success false with an error text, the third success
\* true with no operations. A returned call over a file without a valid
\* number, or whose valid numbers are all in the book, did end early.
C30_EarlyReturns ==
    /\ EndedEarly =>
          /\ calls = <<>>
          /\ operations_log = hist.ledger
          /\ report.kind \in {"parse_error", "no_valid"} =>
                ~report.success /\ report.error # None
          /\ report.kind = "all_exist" =>
                report.success /\ report.operations = <<>>
    /\ ImportEnded /\ FilterValid(hist.parsed) = <<>> =>
          report.kind \in {"parse_error", "no_valid"}
    /\ ImportEnded /\ FilterValid(hist.parsed) # <<>> /\ AllInBook =>
          report.kind = "all_exist"

\* C30 witness: a call on a manager whose log holds an earlier operation
\* found its only valid number in the contact book and returned early
C30_Witness ==
    /\ EndedEarly
    /\ report.kind = "all_exist"
    /\ AllInBook
    /\ FilterValid(hist.parsed) # <<>>
    /\ hist.ledger # <<>>
    /\ operations_log = hist.ledger

\* a call that returned early for want of a valid number, the log kept
C30_WitnessNoValid ==
    /\ EndedEarly
    /\ report.kind = "no_valid"
    /\ hist.ledger # <<>>
    /\ operations_log = hist.ledger

(* ------------------------------ C23 ----------------------------------- *)

\* a run with batch_size >= 1 is under way
Running == hist.op = "import" /\ hist.batch_size >= 1 /\ pc # "idle"

\* the call has returned a report, or the task running it was cancelled
Returned ==
    /\ pc = "idle"
    /\ \/ report.kind \in {"parse_error", "no_valid", "all_exist", "run"}
       \/ hist.cancelled

\* the places a run may go to from each place: the lookup, then the batch
\* loop, each batch through its requests and back to the loop, the return
AllowedMoves ==
    {<<"idle", "lookup">>, <<"idle", "loop">>, <<"lookup", "loop">>,
     <<"lookup", "idle">>, <<"loop", "loop">>, <<"loop", "bulk">>,
     <<"bulk", "call">>, <<"call", "bulk">>, <<"bulk", "bulk">>,
     <<"bulk", "loop">>, <<"loop", "idle">>, <<"call", "idle">>,
     <<"bulk", "idle">>}

\* C23: a run with batch_size >= 1 terminates when every remote call
\* returns: it begins at most one batch per batch_size candidates and sends
\* at most one request per candidate, it moves from the lookup to the
\* batch loop, through the requests of each batch and on to the return in
\* that order, and it eventually returns a report (or was cancelled).
C23_Terminates ==
    /\ [](hist.op = "import" /\ hist.batch_size >= 1 =>
              /\ hist.iterations <= CeilDiv(Len(hist.candidates), hist.batch_size)
              /\ Len(calls) <= Len(hist.candidates))
    /\ [][pc' # pc => <<pc, pc'>> \in AllowedMoves]_vars
    /\ (Running ~> Returned)

\* C23 witness: a run of two batches, the first rate-limited and the second
\* failed with an exception, has returned its report
C23_Witness ==
    /\ RunDone
    /\ hist.batch_size = 1
    /\ Len(calls) = 2
    /\ calls[1].kind = "flood"
    /\ calls[2].kind = "error"

(* ------------------------------ C24 ----------------------------------- *)

\* the text add_single_contact was given, stripped
RawText == ParsedNumber.raw

\* C24: with auto_add_country_code, whatever dialing prefix is configured
\* for the default country, a text that has no leading '+' after the
\* earlier cleaning steps is cleaned to the prefix followed by the text,
\* also when it begins with 82102 and is not 12 characters long.
C24_PrefixPrepended ==
    hist.op = "single" /\ auto_add_country_code =>
        \A country_code \in {get_country_code(default_country), HKDialingPrefix} :
            ~StartsWith(detect_international(RawText), <<"+">>) =>
                clean_with_country_code(RawText, country_code) =
                    country_code \o detect_international(RawText)

\* a text beginning with 82102 of another length than 12 that is left
\* without the configured prefix
ShortRegionPrefixLeftBare ==
    /\ hist.op = "single"
    /\ StartsWith(detect_international(RawText), <<"8", "2", "1", "0", "2">>)
    /\ Len(detect_international(RawText)) # 12
    /\ clean_with_country_code(RawText, HKDialingPrefix) = detect_international(RawText)

(* ------------------------------ C25 ----------------------------------- *)

\* the maximal runs of at least 7 class characters of a line, as pairs of
\* first and last position
MaximalRuns(line) ==
    {r \in (1..Len(line)) \X (1..Len(line)) :
        /\ r[2] - r[1] + 1 >= 7
        /\ \A k \in r[1]..r[2] : line[k] \in PhoneChars
        /\ r[1] = 1 \/ line[r[1] - 1] \notin PhoneChars
        /\ r[2] = Len(line) \/ line[r[2] + 1] \notin PhoneChars}

\* the longest of the runs, the first of them when several are as long
LongestRun(line) ==
    CHOOSE r \in MaximalRuns(line) :
        \A q \in MaximalRuns(line) :
            \/ q[2] - q[1] < r[2] - r[1]
            \/ q[2] - q[1] = r[2] - r[1] /\ q[1] >= r[1]

\* the line is neither blank nor a comment nor skipped as a header
Scanned(line) ==
    /\ line # <<>>
    /\ ~StartsWith(line, <<"#">>)
    /\ ~StartsWith(line, <<"/", "/">>)
    /\ (\E k \in 1..Len(line) : line[k] \in Letters) => Len(OnlyDigits(line)) >= 7

\* some run of the line holds at least 7 digits
HasDigitRun(line) ==
    \E r \in MaximalRuns(line) : Len(OnlyDigits(SubSeq(line, r[1], r[2]))) >= 7

\* C25: of every scanned line of the file the scanner yields the longest
\* maximal run of class characters (the first on ties, stripped), and a
\* line with a run of at least 7 digits yields a non-empty candidate and
\* so a record.
C25_LongestRun ==
    hist.op = "import" =>
        \A n \in 1..Len(hist.lines) :
            LET line == Strip(hist.lines[n])
                run_ == LongestRun(line)
            IN  Scanned(line) =>
                  /\ MaximalRuns(line) # {} =>
                        _extract_phone_from_line(line).text
                            = Strip(SubSeq(line, run_[1], run_[2]))
                  /\ HasDigitRun(line) =>
                        /\ _extract_phone_from_line(line).text # <<>>
                        /\ parse_line(hist.lines[n]) # <<>>

\* a file whose one line holds a run of 7 digits and a longer run of
\* spaces has been read and gave no record
DigitRunNoRecord ==
    /\ hist.op = "import"
    /\ Len(hist.lines) = 1
    /\ Scanned(Strip(hist.lines[1]))
    /\ HasDigitRun(Strip(hist.lines[1]))
    /\ hist.parsed = <<>>
    /\ report.kind = "no_valid"

(* ------------------------------ C28 ----------------------------------- *)

\* create_contact_manager has returned and nothing has been called since
Created == hist.op = "create"

\* C28: create_contact_manager returns a manager only with a session that
\* is connected and authorized as a user; when connecting failed, or the
\* session is not authorized and no phone number was given, it returns
\* None.
C28_ManagerOnlyWhenAuthorized ==
    Created =>
        /\ report.kind = "manager" => session = "ok"
        /\ \/ hist.connect \in {"no_client", "unreachable"}
           \/ hist.connect = "unauthorized" /\ ~hist.phone_number
           => report.kind = "no_manager"

\* a manager returned with an unauthorized session has been given a run,
\* which failed every batch
UnauthorizedManagerRan ==
    /\ RunDone
    /\ session = "unauthorized"
    /\ calls = <<>>
    /\ report.failed > 0

====
